---- MODULE Spec2Model ----
(***************************************************************************)
(* Circuit breaker for requests (src/src/__init__.py).                     *)
(*                                                                         *)
(* The breaker keeps no state of its own besides the failure checker: its  *)
(* State is derived on every read from the FailureCounter held by the      *)
(* injected storage, the threshold and the clock.  The storage is injected *)
(* (its protocol is only declared, in comments, at lines 44-54), so its    *)
(* two operations are modelled from their contract: both are atomic.       *)
(*                                                                         *)
(* A read of the state is two reads, no lock being held: the counter is  *)
(* read from the storage (line 66) and, when it is above the threshold,    *)
(* the clock is read later (line 68).                                      *)
(*                                                                         *)
(* A call of the breaker is modelled in the steps between which other     *)
(* threads can interleave, no lock being held: the two reads of the state  *)
(* check (line 81), the invocation of the wrapped function (lines 83-86),  *)
(* the                                                                     *)
(* classification, which reads the checker (line 88), and the bookkeeping  *)
(* on the storage with the return or raise (lines 90-96).  A send of the   *)
(* adapter installs its checker (line 119) in a step of its own before     *)
(* the call.  The clock may advance between any two steps.                 *)
(***************************************************************************)
EXTENDS Integers, Sequences, FiniteSets, TLC

\* ---------------------------------------------------------------- bounds
MaxTime == 2          \* the clock runs over 0..MaxTime
MaxFailures == 103    \* recorded failures are capped here (guards)
MaxLongTime == 102    \* the clock of SpecStrictClock runs over 0..MaxLongTime

\* The callers: thread 1 alone in Spec, both threads in SpecConc.
Threads == {1, 2}

\* ------------------------------------------------------- program constants
failure_threshold == 100

\* enum.auto() numbers the members of State from 1 in declaration order
State_open == 1
State_half_open == 2
State_closed == 3

\* last_failure_dt: Optional[datetime] = None
NoDt == -1

\* The status_code of a Response that has none: None, as in Response()
NoStatus == -1

\* ------------------------------------------------------------------ values
\* A Python value: its class and, for a Response, its status_code; for a
\* State member, its enum value.
V(cls, arg) == [cls |-> cls, arg |-> arg]
None == V("NoneType", 0)
Response(status_code) == V("Response", status_code)
True == V("bool", 1)
False == V("bool", 0)
StateV(member) == V("State", member)

\* How a function ended: it returned val, or raised val.
Return(v) == [how |-> "return", val |-> v]
Raise(v) == [how |-> "raise", val |-> v]
Nothing == [how |-> "none", val |-> None]

\* Direct base class of each class that occurs.  The ConnectionError of
\* requests.exceptions derives from RequestException, an IOError (OSError);
\* it is no subclass of the builtin ConnectionError.  KeyboardInterrupt
\* derives from BaseException, not from Exception.
Bases(cls) ==
    CASE cls = "CircuitBreakerOpenedError" -> {"CircuitBreakerError"}
      [] cls = "CircuitBreakerError" -> {"Exception"}
      [] cls = "ConnectionError" -> {"OSError"}
      [] cls = "requests.ConnectionError" -> {"requests.RequestException"}
      [] cls = "requests.RequestException" -> {"OSError"}
      [] cls = "OSError" -> {"Exception"}
      [] cls = "ValueError" -> {"Exception"}
      [] cls = "TypeError" -> {"Exception"}
      [] cls = "Exception" -> {"BaseException"}
      [] cls = "KeyboardInterrupt" -> {"BaseException"}
      [] cls = "BaseException" -> {"object"}
      [] cls = "object" -> {}
      [] OTHER -> {"object"}

RECURSIVE Mro(_)
Mro(cls) == {cls} \cup UNION {Mro(b) : b \in Bases(cls)}

isinstance(v, cls) == cls \in Mro(v.cls)

\* ----------------------------------------------------------------- storage
FailureCounter(n, dt) == [total_failures |-> n, last_failure_dt |-> dt]

\* The storage as one operation sees it: the counter, and the storage calls
\* the operation has made so far.
increment_counter(s, clock) ==
    [counter |-> FailureCounter(s.counter.total_failures + 1, clock),
     calls |-> Append(s.calls, "increment_counter")]

reset_counter(s) ==
    [counter |-> FailureCounter(0, NoDt),
     calls |-> Append(s.calls, "reset_counter")]

\* ---------------------------------------------------------- CircuitBreaker
state_ge(c, clock) ==
    IF c.total_failures >= failure_threshold
    THEN IF c.last_failure_dt = NoDt
         THEN Raise(V("TypeError", 0))
         ELSE IF c.last_failure_dt >= clock
              THEN Return(StateV(State_half_open))
              ELSE Return(StateV(State_open))
    ELSE Return(StateV(State_closed))

state_le(c, clock) ==
    IF c.total_failures > failure_threshold
    THEN IF c.last_failure_dt = NoDt
         THEN Raise(V("TypeError", 0))
         ELSE IF c.last_failure_dt <= clock
              THEN Return(StateV(State_half_open))
              ELSE Return(StateV(State_open))
    ELSE Return(StateV(State_closed))

\* The state property, of the counter c read at line 66 and the clock read
\* at line 68.  Comparing None with a datetime raises TypeError.
state(c, clock) ==
    IF c.total_failures > failure_threshold
    THEN IF c.last_failure_dt = NoDt
         THEN Raise(V("TypeError", 0))
         ELSE IF c.last_failure_dt >= clock
              THEN Return(StateV(State_half_open))
              ELSE Return(StateV(State_open))
    ELSE Return(StateV(State_closed))

\* The state property, line 67: whether the clock is read after counter c.
reads_clock(c) == c.total_failures > failure_threshold

reset_noop(s) == s

reset(s) == reset_counter(s)

record_failure_noop(s, clock) == s

record_failure_twice(s, clock) ==
    increment_counter(increment_counter(s, clock), clock)

record_failure_no_stamp(s, clock) ==
    [counter |-> FailureCounter(s.counter.total_failures + 1,
                                s.counter.last_failure_dt),
     calls |-> Append(s.calls, "increment_counter")]

record_failure(s, clock) == increment_counter(s, clock)

\* A checker ends like any function: it returns True or False, or raises.
default_failure_checker(result) ==
    IF isinstance(result, "Exception") THEN Return(True) ELSE Return(False)

\* CircuitBreakerAdapter.has_failure.  Comparing a status_code of None with
\* 500 raises TypeError.
has_failure(result) ==
    IF isinstance(result, "ConnectionError") THEN Return(True)
    ELSE IF isinstance(result, "Response")
         THEN IF result.arg = NoStatus
              THEN Raise(V("TypeError", 0))
              ELSE IF result.arg >= 500 THEN Return(True)
                   ELSE Return(False)
         ELSE Return(False)

\* Checkers a caller can install: the adapter's, and two of its own.
apply(checker, result) ==
    CASE checker = "has_failure" -> has_failure(result)
      [] checker = "always_failure" -> Return(True)
      [] checker = "always_success" -> Return(False)
      [] checker = "_default_failure_checker" -> default_failure_checker(result)

check_failure_default_only(fc, result) == default_failure_checker(result)

\* fc is self._failure_checker, "None" when none was given.
check_failure(fc, result) ==
    LET checker == IF fc # "None" THEN fc ELSE "_default_failure_checker"
    IN apply(checker, result)

call_guard_rejects_half_open(c, clock) ==
    LET s == state(c, clock)
    IN IF s.how = "raise" THEN s
       ELSE IF s.val # StateV(State_closed)
            THEN Raise(V("CircuitBreakerError", 0))
            ELSE Nothing

call_guard_never_rejects(c, clock) ==
    LET s == state(c, clock)
    IN IF s.how = "raise" THEN s ELSE Nothing

\* __call__, lines 81-82: the state check.  Nothing means the call goes on.
call_guard(c, clock) ==
    LET s == state(c, clock)
    IN IF s.how = "raise" THEN s
       ELSE IF s.val = StateV(State_open)
            THEN Raise(V("CircuitBreakerError", 0))
            ELSE Nothing

\* __call__, lines 83-86: whether control goes on to line 88 when func
\* ended as o.  `except Exception` catches instances of Exception only; any
\* other exception leaves the call at line 84.
try_completes(o) == o.how = "return" \/ isinstance(o.val, "Exception")

call_finish_both(is_failure, s, result, clock) ==
    LET s1 == IF is_failure THEN reset(record_failure(s, clock)) ELSE reset(s)
    IN [storage |-> s1,
        ret |-> IF isinstance(result, "Exception") THEN Raise(result)
                ELSE Return(result)]

call_finish_raise_early(is_failure, s, result, clock) ==
    IF isinstance(result, "Exception")
    THEN [storage |-> s, ret |-> Raise(result)]
    ELSE [storage |-> IF is_failure THEN record_failure(s, clock)
                      ELSE reset(s),
          ret |-> Return(result)]

call_finish_skip_reset(is_failure, s, result, clock) ==
    LET s1 == IF is_failure THEN record_failure(s, clock) ELSE s
    IN [storage |-> s1,
        ret |-> IF isinstance(result, "Exception") THEN Raise(result)
                ELSE Return(result)]

\* __call__, lines 90-96: bookkeeping by the verdict is_failure of line 88,
\* then return or raise.  result is the returned value or the caught
\* exception.
call_finish(is_failure, s, result, clock) ==
    LET s1 == IF is_failure THEN record_failure(s, clock) ELSE reset(s)
    IN [storage |-> s1,
        ret |-> IF isinstance(result, "Exception") THEN Raise(result)
                ELSE Return(result)]

\* ------------------------------------------------------------------- state
VARIABLES
    counter,          \* the storage's FailureCounter
    now,              \* the clock, datetime.utcnow()
    failure_checker,  \* self._failure_checker
    pc,               \* per thread: "idle", "state_read", "installed",
                      \* "reading", "checked", "invoked", "classified"
    counter_read,     \* per thread: the counter read at line 66, while
                      \* the clock is still to be read
    op,               \* per thread: its current or last operation
    outcome,          \* per thread: how the wrapped function ended
    is_failure,       \* per thread: the verdict of line 88
    ret,              \* per thread: what its last operation gave the caller
    func_calls,       \* per thread: invocations of func in this operation
    storage_calls,    \* per thread: storage calls made by this operation
    begin             \* per thread: counter, state, checker when it began

vars == <<counter, now, failure_checker, pc, counter_read, op, outcome,
          is_failure, ret, func_calls, storage_calls, begin>>

thread_vars == <<pc, counter_read, op, outcome, is_failure, ret, func_calls,
                 storage_calls, begin>>

Checkers == {"has_failure", "always_failure", "always_success"}

\* What an operation records when it begins, or when it reads the clock:
\* the counter it read, the state derived from it and the checker; or the
\* checker alone; or the state and the checker.
Snapshot == "counter, state, checker"
CheckerOnly == "checker"
StateOnly == "state, checker"

\* The record of kind snap taken by an operation that read counter c.
Taken(snap, c) ==
    [counter |-> IF snap = Snapshot THEN c ELSE FailureCounter(0, NoDt),
     state |-> IF snap = CheckerOnly THEN Return(StateV(State_closed))
               ELSE state(c, now),
     checker |-> failure_checker]

\* The status codes of the responses that occur; NoStatus is that of a
\* Response that was given none.
\* What a wrapped function can do: return a response, another value or an
\* exception object, or raise an exception, one that is no Exception
\* included.
Statuses == {200, 404, 500, 503, NoStatus}
FuncOutcomes ==
    {Return(Response(st)) : st \in Statuses}
    \cup {Return(V("object", 0)), Return(V("ValueError", 0))}
    \cup {Raise(V(c, 0)) : c \in {"ValueError", "ConnectionError",
                                   "requests.ConnectionError",
                                   "KeyboardInterrupt"}}

\* What HTTPAdapter.send can do: return a response, or raise; a failed
\* connection is raised as the ConnectionError of requests.exceptions.
SendOutcomes ==
    {Return(Response(st)) : st \in Statuses}
    \cup {Raise(V(c, 0)) : c \in {"ValueError", "ConnectionError",
                                   "requests.ConnectionError",
                                   "KeyboardInterrupt"}}

Init0(fcs) ==
    /\ counter = FailureCounter(0, NoDt)
    /\ now = 0
    /\ failure_checker \in fcs
    /\ pc = [t \in Threads |-> "idle"]
    /\ counter_read = [t \in Threads |-> FailureCounter(0, NoDt)]
    /\ op = [t \in Threads |-> "none"]
    /\ outcome = [t \in Threads |-> Nothing]
    /\ is_failure = [t \in Threads |-> FALSE]
    /\ ret = [t \in Threads |-> Nothing]
    /\ func_calls = [t \in Threads |-> 0]
    /\ storage_calls = [t \in Threads |-> <<>>]
    /\ begin = [t \in Threads |-> [counter |-> FailureCounter(0, NoDt),
                                   state |-> Return(StateV(State_closed)),
                                   checker |-> "None"]]

Init == Init0({"None"} \cup Checkers)

\* Thread t starts operation name: the per-operation records start afresh.
Start(t, name, snapshot) ==
    /\ pc[t] = "idle"
    /\ op' = [op EXCEPT ![t] = name]
    /\ outcome' = [outcome EXCEPT ![t] = Nothing]
    /\ is_failure' = [is_failure EXCEPT ![t] = FALSE]
    /\ func_calls' = [func_calls EXCEPT ![t] = 0]
    /\ begin' = [begin EXCEPT ![t] = snapshot]

\* ----------------------------------------------------------------- actions
TickTo(max) ==
    /\ now < max
    /\ now' = now + 1
    /\ UNCHANGED <<counter, failure_checker, thread_vars>>

Tick == TickTo(MaxTime)

\* breaker.state, lines 66-67: the counter is read from the storage.  At or
\* below the threshold the state is closed and nothing more is read; above
\* it the clock is read in a later step.
StateRead(t, snap) ==
    /\ Start(t, "state", Taken(snap, counter))
    /\ storage_calls' = [storage_calls EXCEPT ![t] = <<>>]
    /\ IF reads_clock(counter)
       THEN /\ counter_read' = [counter_read EXCEPT ![t] = counter]
            /\ pc' = [pc EXCEPT ![t] = "state_read"]
            /\ ret' = [ret EXCEPT ![t] = Nothing]
       ELSE /\ counter_read' = counter_read
            /\ pc' = pc
            /\ ret' = [ret EXCEPT ![t] = state(counter, now)]
    /\ UNCHANGED <<counter, now, failure_checker>>

\* breaker.state, lines 68-71: the clock is read and compared with the
\* timestamp of the counter read before.
StateClock(t, snap) ==
    /\ pc[t] = "state_read"
    /\ ret' = [ret EXCEPT ![t] = state(counter_read[t], now)]
    /\ begin' = [begin EXCEPT ![t] = Taken(snap, counter_read[t])]
    /\ counter_read' = [counter_read EXCEPT ![t] = FailureCounter(0, NoDt)]
    /\ pc' = [pc EXCEPT ![t] = "idle"]
    /\ UNCHANGED <<counter, now, failure_checker, op, outcome, is_failure,
                   func_calls, storage_calls>>

\* breaker.reset()
Reset(t, snap) ==
    /\ Start(t, "reset", Taken(snap, counter))
    /\ LET s == reset([counter |-> counter, calls |-> <<>>])
       IN /\ counter' = s.counter
          /\ storage_calls' = [storage_calls EXCEPT ![t] = s.calls]
    /\ ret' = [ret EXCEPT ![t] = Return(None)]
    /\ UNCHANGED <<now, failure_checker, pc, counter_read>>

\* breaker.record_failure()
RecordFailure(t, snap) ==
    /\ counter.total_failures < MaxFailures
    /\ Start(t, "record_failure", Taken(snap, counter))
    /\ LET s == record_failure([counter |-> counter, calls |-> <<>>], now)
       IN /\ counter' = s.counter
          /\ storage_calls' = [storage_calls EXCEPT ![t] = s.calls]
    /\ ret' = [ret EXCEPT ![t] = Return(None)]
    /\ UNCHANGED <<now, failure_checker, pc, counter_read>>

\* breaker.add_failure_checker(func)
AddFailureChecker(t, func, snap) ==
    /\ Start(t, "add_failure_checker", Taken(snap, counter))
    /\ failure_checker' = func
    /\ ret' = [ret EXCEPT ![t] = Return(None)]
    /\ storage_calls' = [storage_calls EXCEPT ![t] = <<>>]
    /\ UNCHANGED <<counter, now, pc, counter_read>>

\* __call__, lines 81-82: the outcome g of the state check.  The call is
\* rejected, or goes on to invoke the function.
CallGuard(t, g) ==
    IF g.how = "raise"
    THEN /\ ret' = [ret EXCEPT ![t] = g]
         /\ pc' = [pc EXCEPT ![t] = "idle"]
    ELSE /\ ret' = [ret EXCEPT ![t] = Nothing]
         /\ pc' = [pc EXCEPT ![t] = "checked"]

\* __call__, line 81, reading self.state, lines 66-67: the counter is read
\* from the storage.  At or below the threshold the state is closed and the
\* check is over; above it the clock is read in a later step.
CallEnter(t) ==
    IF reads_clock(counter)
    THEN /\ counter_read' = [counter_read EXCEPT ![t] = counter]
         /\ pc' = [pc EXCEPT ![t] = "reading"]
         /\ ret' = [ret EXCEPT ![t] = Nothing]
    ELSE /\ counter_read' = counter_read
         /\ CallGuard(t, call_guard(counter, now))

\* breaker(func, func_args, func_kwargs), line 81
CallBegin(t, snap) ==
    /\ Start(t, "call", Taken(snap, counter))
    /\ storage_calls' = [storage_calls EXCEPT ![t] = <<>>]
    /\ CallEnter(t)
    /\ UNCHANGED <<counter, now, failure_checker>>

SendInstall_keep_checker(t, snap) ==
    /\ Start(t, "send", Taken(snap, counter))
    /\ failure_checker' = failure_checker
    /\ pc' = [pc EXCEPT ![t] = "installed"]
    /\ ret' = [ret EXCEPT ![t] = Nothing]
    /\ storage_calls' = [storage_calls EXCEPT ![t] = <<>>]
    /\ UNCHANGED <<counter, now, counter_read>>

\* adapter.send(...), line 119: installs has_failure on the breaker.
SendInstall(t, snap) ==
    /\ Start(t, "send", Taken(snap, counter))
    /\ failure_checker' = "has_failure"
    /\ pc' = [pc EXCEPT ![t] = "installed"]
    /\ ret' = [ret EXCEPT ![t] = Nothing]
    /\ storage_calls' = [storage_calls EXCEPT ![t] = <<>>]
    /\ UNCHANGED <<counter, now, counter_read>>

\* adapter.send(...), line 120: calls the breaker with HTTPAdapter.send,
\* which reads the counter for its state check (lines 81, 66-67).
SendCall(t, snap) ==
    /\ pc[t] = "installed"
    /\ begin' = [begin EXCEPT ![t] = Taken(snap, counter)]
    /\ CallEnter(t)
    /\ UNCHANGED <<counter, now, failure_checker, op, outcome, is_failure,
                   func_calls, storage_calls>>

\* __call__, line 81, reading self.state, lines 68-71, then line 82: the
\* clock is read and compared with the timestamp of the counter read before.
CallCheck(t, snap) ==
    /\ pc[t] = "reading"
    /\ begin' = [begin EXCEPT ![t] = Taken(snap, counter_read[t])]
    /\ CallGuard(t, call_guard(counter_read[t], now))
    /\ counter_read' = [counter_read EXCEPT ![t] = FailureCounter(0, NoDt)]
    /\ UNCHANGED <<counter, now, failure_checker, op, outcome, is_failure,
                   func_calls, storage_calls>>

\* lines 83-86: func runs and ends as o.  A return or a caught exception
\* goes on to line 88; an exception that is not caught leaves the call.
CallInvoke(t, o) ==
    /\ pc[t] = "checked"
    /\ outcome' = [outcome EXCEPT ![t] = o]
    /\ func_calls' = [func_calls EXCEPT ![t] = func_calls[t] + 1]
    /\ IF try_completes(o)
       THEN /\ pc' = [pc EXCEPT ![t] = "invoked"]
            /\ ret' = ret
       ELSE /\ pc' = [pc EXCEPT ![t] = "idle"]
            /\ ret' = [ret EXCEPT ![t] = Raise(o.val)]
    /\ UNCHANGED <<counter, now, failure_checker, counter_read, op,
                   is_failure, storage_calls, begin>>

Invoke(t, direct, sent) ==
    \E o \in (IF op[t] = "send" THEN sent ELSE direct) : CallInvoke(t, o)

\* line 88: the checker installed now classifies the result; is_failure is
\* what it returned.  An exception raised by the checker leaves the call.
CallClassify(t) ==
    /\ pc[t] = "invoked"
    /\ LET r == check_failure(failure_checker, outcome[t].val)
       IN IF r.how = "raise"
          THEN /\ is_failure' = is_failure
               /\ ret' = [ret EXCEPT ![t] = r]
               /\ pc' = [pc EXCEPT ![t] = "idle"]
          ELSE /\ is_failure' = [is_failure EXCEPT ![t] = (r.val = True)]
               /\ ret' = ret
               /\ pc' = [pc EXCEPT ![t] = "classified"]
    /\ UNCHANGED <<counter, now, failure_checker, counter_read, op, outcome,
                   func_calls, storage_calls, begin>>

\* lines 90-96
CallFinish(t) ==
    /\ pc[t] = "classified"
    /\ LET f == call_finish(is_failure[t],
                            [counter |-> counter, calls |-> storage_calls[t]],
                            outcome[t].val, now)
       IN /\ f.storage.counter.total_failures <= MaxFailures
          /\ counter' = f.storage.counter
          /\ storage_calls' = [storage_calls EXCEPT ![t] = f.storage.calls]
          /\ ret' = [ret EXCEPT ![t] = f.ret]
    /\ pc' = [pc EXCEPT ![t] = "idle"]
    /\ UNCHANGED <<now, failure_checker, counter_read, op, outcome,
                   is_failure, func_calls, begin>>

\* ---------------------------------------------------------- specifications
\* One caller, every operation of the breaker and of the adapter.
Next ==
    \/ Tick
    \/ StateRead(1, Snapshot)
    \/ StateClock(1, Snapshot)
    \/ Reset(1, Snapshot)
    \/ RecordFailure(1, Snapshot)
    \/ \E f \in Checkers \cup {"None"} : AddFailureChecker(1, f, Snapshot)
    \/ CallBegin(1, Snapshot)
    \/ CallCheck(1, Snapshot)
    \/ SendInstall(1, Snapshot)
    \/ SendCall(1, Snapshot)
    \/ Invoke(1, FuncOutcomes, SendOutcomes)
    \/ CallClassify(1)
    \/ CallFinish(1)

Spec == Init /\ [][Next]_vars

\* Threads sharing one breaker.  The wrapped function returns a plain value
\* or raises; a thread can install a checker of its own.  An operation
\* records only the checker when it begins.
ConcOutcomes == {Return(V("object", 0)), Raise(V("ValueError", 0))}
ConcCheckers == {"always_failure"}

InitConc == Init0({"None"})

NextConc ==
    \/ Tick
    \/ \E t \in Threads :
        \/ RecordFailure(t, CheckerOnly)
        \/ \E f \in ConcCheckers \cup {"None"} :
              AddFailureChecker(t, f, CheckerOnly)
        \/ CallBegin(t, CheckerOnly)
        \/ CallCheck(t, CheckerOnly)
        \/ Invoke(t, ConcOutcomes, ConcOutcomes)
        \/ CallClassify(t)
        \/ CallFinish(t)

SpecConc == InitConc /\ [][NextConc]_vars

\* Two threads sharing one breaker: thread 1 sends through the adapter,
\* thread 2 calls the breaker directly or installs a checker of its own.
\* The function or the transport returns a response with status 503 or
\* raises; the counter changes only through the calls' bookkeeping.
ConcSendOutcomes == {Return(Response(503)), Raise(V("ValueError", 0))}

\* The state depends on the clock only through last_failure_dt >= now, so
\* here the clock is advanced only when it equals the last failure's
\* timestamp.
FailureTick ==
    /\ counter.last_failure_dt = now
    /\ Tick

NextConcSend ==
    \/ FailureTick
    \/ SendInstall(1, CheckerOnly)
    \/ SendCall(1, CheckerOnly)
    \/ \E f \in ConcCheckers : AddFailureChecker(2, f, CheckerOnly)
    \/ CallBegin(2, CheckerOnly)
    \/ \E t \in Threads :
        \/ CallCheck(t, CheckerOnly)
        \/ Invoke(t, ConcSendOutcomes, ConcSendOutcomes)
        \/ CallClassify(t)
        \/ CallFinish(t)

SpecConcSend == InitConc /\ [][NextConcSend]_vars

\* Scenario A: one caller, a function that always raises, a checker that
\* always reports failure.
InitScenarioA == Init0({"always_failure"})

NextScenarioA ==
    \/ Tick
    \/ CallBegin(1, Snapshot)
    \/ CallCheck(1, Snapshot)
    \/ CallInvoke(1, Raise(V("ValueError", 0)))
    \/ CallClassify(1)
    \/ CallFinish(1)

SpecScenarioA == InitScenarioA /\ [][NextScenarioA]_vars

\* Traffic: one caller that keeps calling, and reading the state, while the
\* clock advances; nothing but calls changes the breaker.  Every step that
\* can be taken is eventually taken.
InitTraffic == Init0({"None"} \cup Checkers)

NextTraffic ==
    \/ Tick
    \/ StateRead(1, Snapshot)
    \/ StateClock(1, Snapshot)
    \/ CallBegin(1, Snapshot)
    \/ CallCheck(1, Snapshot)
    \/ Invoke(1, ConcOutcomes, ConcOutcomes)
    \/ CallClassify(1)
    \/ CallFinish(1)

SpecTraffic ==
    /\ InitTraffic
    /\ [][NextTraffic]_vars
    /\ WF_vars(Tick)
    /\ WF_vars(StateRead(1, Snapshot))
    /\ WF_vars(StateClock(1, Snapshot))
    /\ WF_vars(CallBegin(1, Snapshot))
    /\ WF_vars(CallCheck(1, Snapshot))
    /\ WF_vars(Invoke(1, ConcOutcomes, ConcOutcomes))
    /\ WF_vars(CallClassify(1))
    /\ WF_vars(CallFinish(1))

\* A clock that has always passed the last recorded failure when the state
\* is read: a call begins only then.  One caller, calls only.
StrictCallBegin(t, snap) ==
    /\ counter.last_failure_dt < now
    /\ CallBegin(t, snap)

InitStrictClock == Init0({"None"})

NextStrictClock ==
    \/ TickTo(MaxLongTime)
    \/ StrictCallBegin(1, CheckerOnly)
    \/ CallCheck(1, CheckerOnly)
    \/ Invoke(1, ConcOutcomes, ConcOutcomes)
    \/ CallClassify(1)
    \/ CallFinish(1)

SpecStrictClock == InitStrictClock /\ [][NextStrictClock]_vars

\* The same clock with both threads calling.  The state depends on the clock
\* only through last_failure_dt >= now, so the clock is advanced only when
\* it equals the last failure's timestamp.
StrictTick ==
    /\ counter.last_failure_dt = now
    /\ TickTo(MaxLongTime)

NextConcStrict ==
    \/ StrictTick
    \/ \E t \in Threads :
        \/ StrictCallBegin(t, StateOnly)
        \/ CallCheck(t, StateOnly)
        \/ Invoke(t, ConcOutcomes, ConcOutcomes)
        \/ CallClassify(t)
        \/ CallFinish(t)

SpecConcStrict == InitStrictClock /\ [][NextConcStrict]_vars

\* -------------------------------------------------------------- properties
Zero == FailureCounter(0, NoDt)
Open == Return(StateV(State_open))
HalfOpen == Return(StateV(State_half_open))
Closed == Return(StateV(State_closed))

\* Thread t's last operation was a call (direct or through the adapter) and
\* control has left it.
Done(t) == pc[t] = "idle" /\ op[t] \in {"call", "send"}

\* The call went past the state check: it began in a state other than open.
Passed(t) == op[t] \in {"call", "send"} /\ begin[t].state # Open

\* The function of thread t's call raised an exception that is no Exception.
Escaped(t) ==
    /\ outcome[t].how = "raise"
    /\ "Exception" \notin Mro(outcome[t].val.cls)

\* Checker chk raises on value v instead of giving a verdict: has_failure
\* on a response without a status code.
CheckerRaises(chk, v) ==
    chk = "has_failure" /\ v.cls = "Response" /\ v.arg = NoStatus

\* The function of thread t's call ended in a result that the installed
\* checker could not classify.
Unclassified(t) ==
    /\ outcome[t].how = "return"
    /\ CheckerRaises(failure_checker, outcome[t].val)

\* Thread t's call is over and its function's outcome was classified.
Classified(t) ==
    Done(t) /\ func_calls[t] = 1 /\ ~Escaped(t) /\ ~Unclassified(t)

\* The verdict of checker chk on value v, and the bookkeeping it calls for.
Verdict(chk, v) ==
    CASE chk = "None" -> isinstance(v, "Exception")
      [] chk = "always_failure" -> TRUE
      [] chk = "always_success" -> FALSE
      [] chk = "has_failure" ->
            \/ isinstance(v, "ConnectionError")
            \/ (v.cls = "Response" /\ v.arg >= 500)
Bookkeeping(chk, v) ==
    IF Verdict(chk, v) THEN <<"increment_counter">> ELSE <<"reset_counter">>

\* C1: a call begun while the state is open fails with
\* CircuitBreakerOpenedError and does not invoke the wrapped function.
C1_OpenRaisesOpenedError ==
    \A t \in Threads :
        (Done(t) /\ begin[t].state = Open) =>
            /\ ret[t] = Raise(V("CircuitBreakerOpenedError", 0))
            /\ func_calls[t] = 0

\* C2 as claimed: a call that got past the state check invokes the wrapped
\* function once and makes one storage call, increment_counter or
\* reset_counter, before control leaves it: none before the function has
\* ended, and exactly one when the call is over, whether the function
\* returned or raised.
C2_OneInvocationOneBookkeeping ==
    \A t \in Threads :
        Passed(t) =>
            /\ pc[t] = "checked" => func_calls[t] = 0 /\ storage_calls[t] = <<>>
            /\ pc[t] \in {"invoked", "classified"} =>
                  func_calls[t] = 1 /\ storage_calls[t] = <<>>
            /\ pc[t] = "idle" =>
                  /\ func_calls[t] = 1
                  /\ storage_calls[t] \in {<<"increment_counter">>,
                                           <<"reset_counter">>}

\* C2 as amended: a call that got past the state check invokes the wrapped
\* function once; it makes one storage call, increment_counter or
\* reset_counter, before control leaves it when the function returned or
\* raised an Exception and the checker gave a verdict on the result; it
\* makes no storage call when the function raised an exception that is no
\* Exception (KeyboardInterrupt), or when the checker itself raised
\* (has_failure on a response without a status code).
C2_OneBookkeepingWhenCaught ==
    \A t \in Threads :
        Passed(t) =>
            /\ pc[t] = "checked" => func_calls[t] = 0 /\ storage_calls[t] = <<>>
            /\ pc[t] \in {"invoked", "classified"} =>
                  func_calls[t] = 1 /\ storage_calls[t] = <<>>
            /\ pc[t] = "idle" =>
                  /\ func_calls[t] = 1
                  /\ IF Escaped(t) \/ Unclassified(t)
                     THEN storage_calls[t] = <<>>
                     ELSE storage_calls[t] \in {<<"increment_counter">>,
                                                <<"reset_counter">>}

C2_Witness ==
    /\ Done(1) /\ Passed(1)
    /\ outcome[1] = Raise(V("ValueError", 0))
    /\ storage_calls[1] = <<"increment_counter">>

\* C3 as claimed: when the wrapped function raised, the call raises that
\* same error, and its one storage call has been made by then, whatever the
\* checker's verdict on the error.
C3_ErrorPropagatesAfterBookkeeping ==
    \A t \in Threads :
        (Done(t) /\ outcome[t].how = "raise") =>
            /\ ret[t] = Raise(outcome[t].val)
            /\ Len(storage_calls[t]) = 1

\* C3 as amended: when the wrapped function raised, the call raises that
\* same error; when the error is an Exception the call's one storage call
\* has been made by then, whatever the checker's verdict, and when it is no
\* Exception (KeyboardInterrupt) no storage call has been made.
C3_CaughtErrorPropagatesAfterBookkeeping ==
    \A t \in Threads :
        (Done(t) /\ outcome[t].how = "raise") =>
            /\ ret[t] = Raise(outcome[t].val)
            /\ Len(storage_calls[t]) = IF Escaped(t) THEN 0 ELSE 1

C3_Witness ==
    /\ Done(1)
    /\ outcome[1] = Raise(V("ValueError", 0))
    /\ ret[1] = Raise(V("ValueError", 0))
    /\ storage_calls[1] = <<"reset_counter">>

\* C4: Scenario A.  The n-th call begins with n - 1 recorded failures.  Each
\* of the first 101 invokes the function and leaves n failures recorded; the
\* 102nd, made once the clock has passed the last failure, raises
\* CircuitBreakerOpenedError and does not invoke the function.
C4_ScenarioA ==
    Done(1) =>
        LET n == begin[1].counter.total_failures + 1
        IN IF n <= failure_threshold + 1
           THEN func_calls[1] = 1 /\ counter.total_failures = n
           ELSE begin[1].state = Open =>
                   /\ ret[1] = Raise(V("CircuitBreakerOpenedError", 0))
                   /\ func_calls[1] = 0

\* C5: a call whose outcome the checker classifies as success leaves the
\* counter at zero failures and no timestamp, whatever it was before.
C5_SuccessResets ==
    \A t \in Threads :
        (Classified(t) /\ ~Verdict(failure_checker, outcome[t].val)) =>
            counter = Zero

C5_Witness ==
    /\ Classified(1)
    /\ ~Verdict(failure_checker, outcome[1].val)
    /\ begin[1].counter.total_failures > 1
    /\ counter = Zero

\* C6: a state read gives closed when total_failures <= threshold, whatever
\* the timestamp, without reading the clock; above the threshold it reads
\* the clock and gives half_open when last_failure_dt >= now and open
\* otherwise; and neither step changes the counter or the checker.
C6_StateIsDerived ==
    [][\A t \in Threads :
          /\ StateRead(t, Snapshot) =>
                /\ IF counter.total_failures <= failure_threshold
                   THEN ret'[t] = Return(StateV(State_closed))
                   ELSE pc'[t] = "state_read"
                /\ counter' = counter
                /\ failure_checker' = failure_checker
          /\ StateClock(t, Snapshot) =>
                /\ counter.total_failures > failure_threshold
                /\ ret'[t] = Return(StateV(IF counter.last_failure_dt >= now
                                           THEN State_half_open
                                           ELSE State_open))
                /\ counter' = counter
                /\ failure_checker' = failure_checker]_vars

C6_Witness ==
    /\ op[1] = "state"
    /\ ret[1] = Open
    /\ counter.total_failures = failure_threshold + 1

\* C7: after reset(), from any state, the counter holds zero failures and no
\* timestamp, and the state read next is closed.
C7_ResetCloses ==
    \A t \in Threads :
        (pc[t] = "idle" /\ op[t] = "reset") =>
            /\ counter = Zero
            /\ state(counter, now) = Closed

C7_Witness ==
    /\ op[1] = "reset"
    /\ begin[1].state = Open
    /\ counter = Zero

\* C8: each record_failure() of each thread, however the threads' steps
\* interleave, adds exactly one to total_failures.
C8_NoLostIncrement ==
    [][\A t \in Threads :
          RecordFailure(t, CheckerOnly) =>
              counter'.total_failures = counter.total_failures + 1]_vars

C8_Witness ==
    /\ op[1] = "record_failure"
    /\ op[2] = "record_failure"
    /\ counter.total_failures = 2

\* C9 as claimed: a call is classified with the checker that was installed
\* when the call began.
C9_CheckerOfCallBegin ==
    \A t \in Threads :
        Classified(t) =>
            storage_calls[t] = Bookkeeping(begin[t].checker, outcome[t].val)

\* C9 as amended: a call is classified with the checker that is installed
\* when the call classifies its outcome, after the wrapped function has
\* ended: a checker installed while the call was in flight before that is
\* the one used.  The call's storage call follows that verdict, whatever
\* checker is installed by then.
C9_CheckerOfClassification ==
    [][\A t \in Threads :
          /\ CallClassify(t) =>
                is_failure'[t] = Verdict(failure_checker, outcome[t].val)
          /\ CallFinish(t) =>
                storage_calls'[t] = IF is_failure[t]
                                    THEN <<"increment_counter">>
                                    ELSE <<"reset_counter">>]_vars

C9_Witness ==
    /\ Classified(2) /\ op[2] = "call"
    /\ begin[2].checker = "None"
    /\ op[1] = "send" /\ pc[1] = "installed"
    /\ failure_checker = "has_failure"
    /\ outcome[2] = Return(Response(503))
    /\ storage_calls[2] = <<"increment_counter">>

\* C10: Scenario B.  A send that the breaker lets through records a failure
\* when the transport raises a connection failure or returns a response
\* with status >= 500, and resets the counter on every other outcome.
ConnectionFailure(o) ==
    /\ o.how = "raise"
    /\ o.val.cls \in {"ConnectionError", "requests.ConnectionError"}

C10_ScenarioB ==
    \A t \in Threads :
        (Classified(t) /\ op[t] = "send") =>
            storage_calls[t] =
                IF \/ ConnectionFailure(outcome[t])
                   \/ (outcome[t].val.cls = "Response"
                          /\ outcome[t].val.arg >= 500)
                THEN <<"increment_counter">>
                ELSE <<"reset_counter">>

\* C11: with no checker installed, a call whose function raised increments
\* the counter and a call whose function returned resets it.
C11_DefaultChecker ==
    \A t \in Threads :
        (Classified(t) /\ failure_checker = "None") =>
            storage_calls[t] =
                IF outcome[t].how = "raise" THEN <<"increment_counter">>
                ELSE <<"reset_counter">>

\* C12: open is no terminal state: whenever the state is open, calls and
\* the advancing clock lead to a state that is closed or half_open again.
C12_OpenIsLeft ==
    (state(counter, now) = Open) ~> (state(counter, now) # Open)

\* C13: in every step total_failures stays, grows by one, or becomes zero
\* together with the timestamp becoming none; it is never negative.
C13_CounterSteps ==
    [][/\ \/ counter'.total_failures = counter.total_failures
          \/ counter'.total_failures = counter.total_failures + 1
          \/ counter' = Zero
       /\ counter'.total_failures >= 0]_vars

C13_Witness ==
    /\ op[1] = "record_failure"
    /\ begin[1].counter.total_failures = 1
    /\ counter.total_failures = 2

\* C14: a call begun in state half_open is not rejected: it invokes the
\* function as in closed.  When the checker classifies the outcome, the
\* caller gets the function's value or error, and a success leaves a
\* counter whose state reads closed, a failure one more failure recorded.
\* When the outcome is not classified, because the function raised what is
\* no Exception or the checker itself raised, the caller gets that
\* exception and the counter is as the call found it.
C14_HalfOpenLetsThrough ==
    \A t \in Threads :
        (Done(t) /\ begin[t].state = HalfOpen) =>
            /\ func_calls[t] = 1
            /\ ret[t] # Raise(V("CircuitBreakerError", 0))
            /\ Classified(t) =>
                  /\ ret[t].val = outcome[t].val
                  /\ IF Verdict(failure_checker, outcome[t].val)
                     THEN counter.total_failures =
                              begin[t].counter.total_failures + 1
                     ELSE counter = Zero /\ state(counter, now) = Closed
            /\ Escaped(t) =>
                  ret[t] = outcome[t] /\ counter = begin[t].counter
            /\ Unclassified(t) =>
                  /\ ret[t] = Raise(V("TypeError", 0))
                  /\ counter = begin[t].counter

C14_Witness ==
    /\ Done(1)
    /\ begin[1].state = HalfOpen
    /\ func_calls[1] = 1
    /\ counter.total_failures = failure_threshold + 2

\* C15: once a send has begun, before its call is made and whether that
\* call is rejected or not, the installed checker is the adapter's, and
\* stays so through further sends; installing it has changed nothing else,
\* and neither has a rejected send.
C15_SendInstallsChecker ==
    \A t \in Threads :
        op[t] = "send" =>
            /\ failure_checker = "has_failure"
            /\ pc[t] = "installed" => counter = begin[t].counter
            /\ (pc[t] = "idle" /\ begin[t].state = Open) =>
                  counter = begin[t].counter

C15_Witness ==
    /\ Done(1) /\ op[1] = "send"
    /\ begin[1].state = Open
    /\ func_calls[1] = 0
    /\ failure_checker = "has_failure"

\* C16: a call whose function returned gives the caller that value and
\* raises nothing; a call raises only when it was rejected or its function
\* raised.
C16_ReturnIsReturned ==
    \A t \in Threads :
        (Done(t) /\ func_calls[t] = 1) =>
            /\ outcome[t].how = "return" => ret[t] = Return(outcome[t].val)
            /\ ret[t].how = "raise" => outcome[t].how = "raise"

\* C17: a call rejected because the state is open leaves the counter and
\* the checker as they were when it began.
C17_RejectionChangesNothing ==
    \A t \in Threads :
        (Done(t) /\ begin[t].state = Open) =>
            /\ counter = begin[t].counter
            /\ failure_checker = begin[t].checker
            /\ storage_calls[t] = <<>>

C17_Witness ==
    /\ Done(1) /\ op[1] = "call"
    /\ begin[1].state = Open
    /\ ret[1].how = "raise"
    /\ counter.total_failures = failure_threshold + 1

\* C18: with one caller that only calls and a clock that has passed the
\* last failure at every state read, total_failures never exceeds
\* threshold + 1.
C18_CounterStopsAboveThreshold ==
    counter.total_failures <= failure_threshold + 1

C18_Witness ==
    /\ counter.total_failures = failure_threshold + 1
    /\ Done(1)
    /\ ret[1] = Raise(V("CircuitBreakerError", 0))
    /\ func_calls[1] = 0

\* C19 as claimed: with both threads calling, no function is invoked while
\* the state is open, and total_failures never exceeds threshold + 1.
C19_CheckAndInvokeIndivisible ==
    [][/\ \A t \in Threads :
             (pc[t] = "checked" /\ pc'[t] # "checked") =>
                 state(counter, now) # Open
       /\ counter'.total_failures <= failure_threshold + 1]_vars

\* C19 as amended: a function is invoked only by a call whose own state
\* check read a state other than open, and total_failures never exceeds
\* the threshold by more than the number of threads calling.
C19_CheckThenInvoke ==
    /\ \A t \in Threads :
          pc[t] \in {"checked", "invoked", "classified"} =>
              begin[t].state # Open
    /\ \A t \in Threads :
          (Done(t) /\ begin[t].state = Open) => func_calls[t] = 0
    /\ counter.total_failures <= failure_threshold + Cardinality(Threads)

C19_Witness ==
    /\ counter.total_failures = failure_threshold + 2
    /\ Done(2) /\ func_calls[2] = 1
    /\ begin[2].state = Closed
    /\ state(counter, now) = Open

\* C20: total_failures is zero exactly when there is no timestamp, and a
\* state read raises nothing.
C20_CountAndStampAgree ==
    /\ counter.total_failures = 0 <=> counter.last_failure_dt = NoDt
    /\ state(counter, now).how = "return"
    /\ \A t \in Threads :
          (op[t] = "state" /\ pc[t] = "idle") => ret[t].how = "return"

C20_Witness ==
    /\ op[1] = "state"
    /\ ret[1] = HalfOpen
    /\ counter.last_failure_dt = now

====
